---------------------------- MODULE Spec2Model ----------------------------
(***************************************************************************)
(* A model of the etrsitrs package: ParameterSet (parameterset.py), the    *)
(* forward and reverse transforms and DatumTransformation                  *)
(* (datumtransformation.py), and the transform table and its lookup        *)
(* (main.py).                                                              *)
(*                                                                         *)
(* Numbers.  The package computes with floating-point numbers.  The model  *)
(* computes with integers, exactly: every quantity is an integer and +, -  *)
(* and * are the ring operations, so an algebraic identity of the code's   *)
(* formulas holds in the model exactly when it holds for all integer       *)
(* inputs.  The sanity threshold 1e-6 of ParameterSet.__init__ is the      *)
(* integer TermDLimit in the model's unit of term_d.                       *)
(*                                                                         *)
(* The table.  The coefficients of TRANSFORM_TABLE are far smaller than    *)
(* the threshold, and no integer unit holds both.  The model keeps of each *)
(* coefficient its sign, -1, 0 or 1 memo unit, which ETRF2000 converts as  *)
(* the code does, by the factors mm, nano and mas; every entry then        *)
(* constructs, as in the code, and its term_d reaches the threshold after  *)
(* a year or two of propagation instead of after thousands of years.       *)
(*                                                                         *)
(* Outcomes.  A call either returns a value or raises; its outcome is a    *)
(* record, Ok(value) or Raise(error class, message parts).                 *)
(***************************************************************************)
EXTENDS Integers, Sequences, FiniteSets, TLC

VARIABLES
    transform,   \* the DatumTransformation the caller holds: <<>> or <<t>>
    converter,   \* the function convert_fn returned last: <<>> or <<closure>>
    table,       \* main.TRANSFORM_TABLE, a module-level list
    op,          \* the call made last ("idle": none pending)
    args,        \* its arguments
    result,      \* its outcome
    threads      \* the calls of main.py that concurrent threads are in

vars == <<transform, converter, table, op, args, result, threads>>

----------------------------------------------------------------------------
(* Bounds of the model.                                                    *)

\* vector components of the inputs range over 0..MaxCoord
MaxCoord == 1
\* epochs and reference epochs range over 0..MaxEpoch
MaxEpoch == 2
\* term_d of a constructor call ranges over -MaxTermD..MaxTermD
MaxTermD == 3
\* the number of threads that call main.py concurrently
MaxThreads == 2

(* Program constants.                                                      *)

\* the threshold 1e-6 of the term_d sanity check
TermDLimit == 2
\* the number of components of translate_m and rotate_rad
VecLen == 3
\* the units of the memo in the units of ParameterSet: the millimetre
\* (0.001 m), the 1e-9 of term D and the milliarcsecond (in radians), three
\* different numbers, in the order of the real ones
mm == 4
nano == 2
mas == 3
\* the reference epoch 2000.0 of every entry of the table; the epochs of the
\* model are years counted from 1999
Epoch2000 == 1

----------------------------------------------------------------------------
(* Outcomes and optional values.                                           *)

Ok(v) == [ok |-> TRUE, value |-> v, error |-> "", message |-> <<>>]

Raise(e, m) == [ok |-> FALSE, value |-> <<>>, error |-> e, message |-> m]

None == <<>>

Some(v) == <<v>>

----------------------------------------------------------------------------
(* numpy arrays of numbers: sequences of integers.                         *)

VAdd(a, b) == [i \in 1..Len(a) |-> a[i] + b[i]]

VSub(a, b) == [i \in 1..Len(a) |-> a[i] - b[i]]

VScale(a, number) == [i \in 1..Len(a) |-> a[i] * number]

RECURSIVE SumProducts(_, _, _)
SumProducts(row, v, n) ==
    IF n = 0 THEN 0 ELSE SumProducts(row, v, n - 1) + row[n] * v[n]

\* numpy.dot of a matrix (a sequence of rows) and a vector
dot(m, v) == [i \in 1..Len(m) |-> SumProducts(m[i], v, Len(v))]


----------------------------------------------------------------------------
(* parameterset.py                                                         *)

\* a bare number given where a sequence is expected: a value that has
\* components of no place 1, 2, ..., and no length
Bare(x) == [i \in {0} |-> x]

\* len(v) returns for a sequence and raises TypeError for a bare number
HasLen(v) == DOMAIN v # {0}

\* a mutant of ParameterSet.__init__: the length of rotate_rad unchecked
ParameterSet_unchecked_rotation(translate_m, term_d, rotate_rad) ==
    IF ~HasLen(translate_m)
    THEN Raise("TypeError", <<"len", translate_m>>)
    ELSE IF Len(translate_m) # VecLen
    THEN Raise("ValueError", <<"translate_m", translate_m>>)
    ELSE IF term_d > TermDLimit
    THEN Raise("ValueError", <<"term_d", term_d>>)
    ELSE Ok([translate_m |-> translate_m,
             term_d      |-> term_d,
             rotate_rad  |-> rotate_rad])

\* a mutant of ParameterSet.__init__: both lengths checked before term_d
ParameterSet_lengths_first(translate_m, term_d, rotate_rad) ==
    IF ~HasLen(translate_m)
    THEN Raise("TypeError", <<"len", translate_m>>)
    ELSE IF Len(translate_m) # VecLen
    THEN Raise("ValueError", <<"translate_m", translate_m>>)
    ELSE IF ~HasLen(rotate_rad)
    THEN Raise("TypeError", <<"len", rotate_rad>>)
    ELSE IF Len(rotate_rad) # VecLen
    THEN Raise("ValueError", <<"rotate_rad", rotate_rad>>)
    ELSE IF term_d > TermDLimit
    THEN Raise("ValueError", <<"term_d", term_d>>)
    ELSE Ok([translate_m |-> translate_m,
             term_d      |-> term_d,
             rotate_rad  |-> rotate_rad])

\* ParameterSet.__init__: the three checks, in the order of the code; each
\* len() raises TypeError for an argument that has no length
ParameterSet(translate_m, term_d, rotate_rad) ==
    IF ~HasLen(translate_m)
    THEN Raise("TypeError", <<"len", translate_m>>)
    ELSE IF Len(translate_m) # VecLen
    THEN Raise("ValueError", <<"translate_m", translate_m>>)
    ELSE IF term_d > TermDLimit
    THEN Raise("ValueError", <<"term_d", term_d>>)
    ELSE IF ~HasLen(rotate_rad)
    THEN Raise("TypeError", <<"len", rotate_rad>>)
    ELSE IF Len(rotate_rad) # VecLen
    THEN Raise("ValueError", <<"rotate_rad", rotate_rad>>)
    ELSE Ok([translate_m |-> translate_m,
             term_d      |-> term_d,
             rotate_rad  |-> rotate_rad])

\* a mutant of matrix: the transposed matrix, the rotations with the other sign
matrix_transposed(self) ==
    LET r_1 == self.rotate_rad[1]
        r_2 == self.rotate_rad[2]
        r_3 == self.rotate_rad[3]
    IN  << <<self.term_d, r_3, -r_2>>,
           <<-r_3, self.term_d, r_1>>,
           <<r_2, -r_1, self.term_d>> >>

\* ParameterSet.matrix
matrix(self) ==
    LET r_1 == self.rotate_rad[1]
        r_2 == self.rotate_rad[2]
        r_3 == self.rotate_rad[3]
    IN  << <<self.term_d, -r_3, r_2>>,
           <<r_3, self.term_d, -r_1>>,
           <<-r_2, r_1, self.term_d>> >>

\* a mutant of __mul__: term_d left unscaled
__mul__keeping_term_d(self, number) ==
    ParameterSet(VScale(self.translate_m, number),
                 self.term_d,
                 VScale(self.rotate_rad, number))

\* ParameterSet.__mul__: a new ParameterSet, through the constructor
__mul__(self, number) ==
    ParameterSet(VScale(self.translate_m, number),
                 self.term_d * number,
                 VScale(self.rotate_rad, number))

\* a mutant of __add__: the rotations of other left out
__add__without_rotation(self, other) ==
    ParameterSet(VAdd(self.translate_m, other.translate_m),
                 self.term_d + other.term_d,
                 self.rotate_rad)

\* a mutant of __add__: the sum built without the constructor and its checks
__add__unchecked(self, other) ==
    Ok([translate_m |-> VAdd(self.translate_m, other.translate_m),
        term_d      |-> self.term_d + other.term_d,
        rotate_rad  |-> VAdd(self.rotate_rad, other.rotate_rad)])

\* ParameterSet.__add__: a new ParameterSet, through the constructor
__add__(self, other) ==
    ParameterSet(VAdd(self.translate_m, other.translate_m),
                 self.term_d + other.term_d,
                 VAdd(self.rotate_rad, other.rotate_rad))

----------------------------------------------------------------------------
(* datumtransformation.py                                                  *)

\* a mutant of forward_transform: the rotation term subtracted
forward_transform_subtracting(xyz_m, translate_m, rotation_matrix) ==
    VSub(VAdd(xyz_m, translate_m), dot(rotation_matrix, xyz_m))

forward_transform(xyz_m, translate_m, rotation_matrix) ==
    VAdd(VAdd(xyz_m, translate_m), dot(rotation_matrix, xyz_m))

\* a mutant of reverse_transform: the matrix applied to xyz_m itself
reverse_transform_untranslated(xyz_m, translate_m, rotation_matrix) ==
    VSub(VSub(xyz_m, translate_m), dot(rotation_matrix, xyz_m))

reverse_transform(xyz_m, translate_m, rotation_matrix) ==
    VSub(VSub(xyz_m, translate_m),
         dot(rotation_matrix, VSub(xyz_m, translate_m)))

\* DatumTransformation.__init__: stores its arguments, checks nothing
DatumTransformation(from_frame, to_frame, parameters, rates, ref_epoch) ==
    [from_frame |-> from_frame,
     to_frame   |-> to_frame,
     parameters |-> parameters,
     rates      |-> rates,
     ref_epoch  |-> ref_epoch]

\* a mutant of propagate_parameters: the rates scaled by the epoch itself
propagate_parameters_from_zero(self, epoch) ==
    LET scaled == __mul__(self.rates, epoch)
    IN  IF ~scaled.ok THEN scaled
        ELSE __add__(self.parameters, scaled.value)

\* a mutant of propagate_parameters: the sum built without the constructor
\* and its checks
propagate_parameters_unvalidated(self, epoch) ==
    LET number == epoch - self.ref_epoch
    IN  Ok([translate_m |-> VAdd(self.parameters.translate_m,
                                 VScale(self.rates.translate_m, number)),
            term_d      |-> self.parameters.term_d + self.rates.term_d * number,
            rotate_rad  |-> VAdd(self.parameters.rotate_rad,
                                 VScale(self.rates.rotate_rad, number))])

\* a mutant of propagate_parameters: the scaled rates built without the
\* constructor, so that only the sum is checked
propagate_parameters_checking_sum(self, epoch) ==
    LET number == epoch - self.ref_epoch
    IN  __add__(self.parameters,
                [translate_m |-> VScale(self.rates.translate_m, number),
                 term_d      |-> self.rates.term_d * number,
                 rotate_rad  |-> VScale(self.rates.rotate_rad, number)])

\* DatumTransformation.propagate_parameters:
\* self.parameters + self.rates*(epoch - self.ref_epoch); the product is
\* evaluated first, and an exception of it ends the call
propagate_parameters(self, epoch) ==
    LET scaled == __mul__(self.rates, epoch - self.ref_epoch)
    IN  IF ~scaled.ok THEN scaled
        ELSE __add__(self.parameters, scaled.value)

\* a mutant of convert_fn: the parameters of the reference epoch, unpropagated
convert_fn_unpropagated(self, from_frame, to_frame, epoch) ==
    IF from_frame = self.from_frame /\ to_frame = self.to_frame
    THEN Ok([transform   |-> "forward_transform",
             translate_m |-> self.parameters.translate_m,
             matrix      |-> matrix(self.parameters)])
    ELSE IF from_frame = self.to_frame /\ to_frame = self.from_frame
    THEN Ok([transform   |-> "reverse_transform",
             translate_m |-> self.parameters.translate_m,
             matrix      |-> matrix(self.parameters)])
    ELSE Raise("ValueError",
               <<"No transform", from_frame, to_frame,
                 self.to_frame, self.from_frame>>)

\* a mutant of convert_fn: the reverse direction selected on from_frame alone
convert_fn_lenient(self, from_frame, to_frame, epoch) ==
    LET parameters == propagate_parameters(self, epoch)
    IN  IF ~parameters.ok THEN parameters
        ELSE IF from_frame = self.from_frame /\ to_frame = self.to_frame
        THEN Ok([transform   |-> "forward_transform",
                 translate_m |-> parameters.value.translate_m,
                 matrix      |-> matrix(parameters.value)])
        ELSE IF from_frame = self.to_frame
        THEN Ok([transform   |-> "reverse_transform",
                 translate_m |-> parameters.value.translate_m,
                 matrix      |-> matrix(parameters.value)])
        ELSE Raise("ValueError",
                   <<"No transform", from_frame, to_frame,
                     self.to_frame, self.from_frame>>)

\* a mutant of convert_fn: the frames tested first, the parameters
\* propagated after
convert_fn_frames_first(self, from_frame, to_frame, epoch) ==
    IF ~(\/ from_frame = self.from_frame /\ to_frame = self.to_frame
         \/ from_frame = self.to_frame /\ to_frame = self.from_frame)
    THEN Raise("ValueError",
               <<"No transform", from_frame, to_frame,
                 self.to_frame, self.from_frame>>)
    ELSE LET parameters == propagate_parameters(self, epoch)
         IN  IF ~parameters.ok THEN parameters
             ELSE Ok([transform   |-> IF from_frame = self.from_frame
                                         /\ to_frame = self.to_frame
                                      THEN "forward_transform"
                                      ELSE "reverse_transform",
                      translate_m |-> parameters.value.translate_m,
                      matrix      |-> matrix(parameters.value)])

\* DatumTransformation.convert_fn: propagates, then selects the direction;
\* the function it returns is the closure of the selected transform, the
\* propagated translation and the propagated matrix
convert_fn(self, from_frame, to_frame, epoch) ==
    LET parameters == propagate_parameters(self, epoch)
    IN  IF ~parameters.ok THEN parameters
        ELSE IF from_frame = self.from_frame /\ to_frame = self.to_frame
        THEN Ok([transform   |-> "forward_transform",
                 translate_m |-> parameters.value.translate_m,
                 matrix      |-> matrix(parameters.value)])
        ELSE IF from_frame = self.to_frame /\ to_frame = self.from_frame
        THEN Ok([transform   |-> "reverse_transform",
                 translate_m |-> parameters.value.translate_m,
                 matrix      |-> matrix(parameters.value)])
        ELSE Raise("ValueError",
                   <<"No transform", from_frame, to_frame,
                     self.to_frame, self.from_frame>>)

\* DatumTransformation.convert_fn from its test of the frames on, the
\* parameters being those its first statement propagated
convert_fn_selecting(self, parameters, from_frame, to_frame) ==
    IF from_frame = self.from_frame /\ to_frame = self.to_frame
    THEN Ok([transform   |-> "forward_transform",
             translate_m |-> parameters.translate_m,
             matrix      |-> matrix(parameters)])
    ELSE IF from_frame = self.to_frame /\ to_frame = self.from_frame
    THEN Ok([transform   |-> "reverse_transform",
             translate_m |-> parameters.translate_m,
             matrix      |-> matrix(parameters)])
    ELSE Raise("ValueError",
               <<"No transform", from_frame, to_frame,
                 self.to_frame, self.from_frame>>)

\* convert_function, the function convert_fn returns, applied to xyz_m
convert_function(closure, xyz_m) ==
    IF closure.transform = "forward_transform"
    THEN forward_transform(xyz_m, closure.translate_m, closure.matrix)
    ELSE reverse_transform(xyz_m, closure.translate_m, closure.matrix)

\* a mutant of convert: the function of the reference epoch applied
convert_at_reference_epoch(self, xyz_m, from_frame, to_frame, epoch) ==
    LET fn == convert_fn_unpropagated(self, from_frame, to_frame, epoch)
    IN  IF ~fn.ok THEN fn
        ELSE Ok(convert_function(fn.value, xyz_m))

\* DatumTransformation.convert: self.convert_fn(...)(xyz_m)
convert(self, xyz_m, from_frame, to_frame, epoch) ==
    LET fn == convert_fn(self, from_frame, to_frame, epoch)
    IN  IF ~fn.ok THEN fn
        ELSE Ok(convert_function(fn.value, xyz_m))

----------------------------------------------------------------------------
(* main.py                                                                 *)

\* a mutant of ETRF2000.__init__: the two frames exchanged in the call of
\* the constructor of DatumTransformation
ETRF2000_frames_exchanged(from_frame, parameters, rates, ref_epoch) ==
    LET p == ParameterSet(VScale(SubSeq(parameters, 1, 3), mm),
                          parameters[4] * nano,
                          VScale(SubSeq(parameters, 5, Len(parameters)), mas))
        r == ParameterSet(VScale(SubSeq(rates, 1, 3), mm),
                          rates[4] * nano,
                          VScale(SubSeq(rates, 5, Len(rates)), mas))
    IN  IF ~p.ok THEN p
        ELSE IF ~r.ok THEN r
        ELSE Ok(DatumTransformation("ETRF2000", from_frame,
                                    p.value, r.value, ref_epoch))

\* a mutant of ETRF2000.__init__: the rates handed on in the units of the
\* memo
ETRF2000_rates_unconverted(from_frame, parameters, rates, ref_epoch) ==
    LET p == ParameterSet(VScale(SubSeq(parameters, 1, 3), mm),
                          parameters[4] * nano,
                          VScale(SubSeq(parameters, 5, Len(parameters)), mas))
        r == ParameterSet(SubSeq(rates, 1, 3), rates[4],
                          SubSeq(rates, 5, Len(rates)))
    IN  IF ~p.ok THEN p
        ELSE IF ~r.ok THEN r
        ELSE Ok(DatumTransformation(from_frame, "ETRF2000",
                                    p.value, r.value, ref_epoch))

\* ETRF2000.__init__: the 7 values [T1, T2, T3, D, R1, R2, R3] of the memo,
\* for the parameters and then for the rates, converted to the units of
\* ParameterSet; to_frame is 'ETRF2000'.  An exception of either
\* ParameterSet ends the construction.
ETRF2000(from_frame, parameters, rates, ref_epoch) ==
    LET p == ParameterSet(VScale(SubSeq(parameters, 1, 3), mm),
                          parameters[4] * nano,
                          VScale(SubSeq(parameters, 5, Len(parameters)), mas))
    IN  IF ~p.ok THEN p
        ELSE LET r == ParameterSet(VScale(SubSeq(rates, 1, 3), mm),
                                   rates[4] * nano,
                                   VScale(SubSeq(rates, 5, Len(rates)), mas))
             IN  IF ~r.ok THEN r
                 ELSE Ok(DatumTransformation(from_frame, "ETRF2000",
                                             p.value, r.value, ref_epoch))

\* a mutant of the table: two entries for ITRF2008, with different rates
TRANSFORM_TABLE_twice_ITRF2008 ==
    << ETRF2000("ITRF2008", <<  1,  1, -1,  1,  1,  1, -1 >>,
                            <<  1,  1, -1,  1,  1,  1, -1 >>, Epoch2000).value,
       ETRF2000("ITRF2008", <<  1,  1, -1,  1,  1,  1, -1 >>,
                            << -1,  1, -1,  1,  1,  1, -1 >>, Epoch2000).value,
       ETRF2000("ITRF2000", <<  1,  1, -1,  0,  1,  1, -1 >>,
                            <<  0,  0,  0,  0,  1,  1, -1 >>, Epoch2000).value >>

\* The table of main.py.  Each coefficient of the memo is written as its
\* sign (see the head of the module); the columns are those of the source:
\*                                T1  T2  T3   D  R1  R2  R3
TRANSFORM_TABLE ==
    << ETRF2000("ITRF2008", <<  1,  1, -1,  1,  1,  1, -1 >>,
                            <<  1,  1, -1,  1,  1,  1, -1 >>, Epoch2000).value,
       ETRF2000("ITRF2005", <<  1,  1, -1,  1,  1,  1, -1 >>,
                            << -1,  1, -1,  1,  1,  1, -1 >>, Epoch2000).value,
       ETRF2000("ITRF2000", <<  1,  1, -1,  0,  1,  1, -1 >>,
                            <<  0,  0,  0,  0,  1,  1, -1 >>, Epoch2000).value,
       ETRF2000("ITRF97",   <<  1,  1, -1, -1,  1,  1, -1 >>,
                            <<  0,  1,  1, -1,  1,  1, -1 >>, Epoch2000).value,
       ETRF2000("ITRF96",   <<  1,  1, -1, -1,  1,  1, -1 >>,
                            <<  0,  1,  1, -1,  1,  1, -1 >>, Epoch2000).value,
       ETRF2000("ITRF94",   <<  1,  1, -1, -1,  1,  1, -1 >>,
                            <<  0,  1,  1, -1,  1,  1, -1 >>, Epoch2000).value,
       ETRF2000("ITRF93",   <<  1,  1, -1, -1,  1,  1, -1 >>,
                            <<  1,  1,  1, -1,  1,  1, -1 >>, Epoch2000).value,
       ETRF2000("ITRF92",   <<  1,  1, -1, -1,  1,  1, -1 >>,
                            <<  0,  1,  1, -1,  1,  1, -1 >>, Epoch2000).value,
       ETRF2000("ITRF91",   <<  1,  1, -1, -1,  1,  1, -1 >>,
                            <<  0,  1,  1, -1,  1,  1, -1 >>, Epoch2000).value,
       ETRF2000("ITRF90",   <<  1,  1,  1, -1,  1,  1, -1 >>,
                            <<  0,  1,  1, -1,  1,  1, -1 >>, Epoch2000).value,
       ETRF2000("ITRF89",   <<  1,  1,  1, -1,  1,  1, -1 >>,
                            <<  0,  1,  1, -1,  1,  1, -1 >>, Epoch2000).value >>

\* the list comprehension of find_transform: the entries of tbl, in order,
\* whose to_frame and from_frame are both among frames
RECURSIVE Matching(_, _)
Matching(tbl, frames) ==
    IF tbl = <<>> THEN <<>>
    ELSE LET rest == Matching(Tail(tbl), frames)
         IN  IF Head(tbl).to_frame \in frames /\ Head(tbl).from_frame \in frames
             THEN <<Head(tbl)>> \o rest
             ELSE rest

\* a mutant of find_transform: only the entries of the requested direction
find_transform_ordered(tbl, from_frame, to_frame) ==
    LET matches == SelectSeq(tbl, LAMBDA t : t.from_frame = from_frame
                                             /\ t.to_frame = to_frame)
    IN  IF Len(matches) = 0
        THEN Raise("KeyError", <<"No transform in TRANSFORM_TABLE",
                                 from_frame, to_frame>>)
        ELSE Ok(matches[1])

\* a mutant of find_transform: an entry matches when one of its frames is
\* requested ("or" for "and")
find_transform_either(tbl, from_frame, to_frame) ==
    LET matches == SelectSeq(tbl, LAMBDA t : t.to_frame \in {to_frame, from_frame}
                                             \/ t.from_frame \in {to_frame, from_frame})
    IN  IF Len(matches) = 0
        THEN Raise("KeyError", <<"No transform in TRANSFORM_TABLE",
                                 from_frame, to_frame>>)
        ELSE Ok(matches[1])

find_transform(tbl, from_frame, to_frame) ==
    LET frames  == {to_frame, from_frame}
        matches == Matching(tbl, frames)
    IN  IF Len(matches) = 0
        THEN Raise("KeyError", <<"No transform in TRANSFORM_TABLE",
                                 from_frame, to_frame>>)
        ELSE Ok(matches[1])

\* main.convert_fn: find_transform, then the convert_fn of the transform found
main_convert_fn(tbl, from_frame, to_frame, epoch) ==
    LET found == find_transform(tbl, from_frame, to_frame)
    IN  IF ~found.ok THEN found
        ELSE convert_fn(found.value, from_frame, to_frame, epoch)

\* main.convert: find_transform, then the convert of the transform found
main_convert(tbl, xyz_m, from_frame, to_frame, epoch) ==
    LET found == find_transform(tbl, from_frame, to_frame)
    IN  IF ~found.ok THEN found
        ELSE convert(found.value, xyz_m, from_frame, to_frame, epoch)

----------------------------------------------------------------------------
(* The inputs of the model.                                                *)

Coords == 0..MaxCoord

\* the sequences of n numbers with at most one component that is not zero
Vectors(n) ==
    {[i \in 1..n |-> IF i = k THEN c ELSE 0] : k \in 1..n, c \in Coords}

Epochs == 0..MaxEpoch

\* the ParameterSets the constructor returns for vectors of Vectors(VecLen)
\* and a term_d of ds
ParameterSets(ds) ==
    {ParameterSet(t, d, r).value :
        t \in Vectors(VecLen), d \in {x \in ds : x <= TermDLimit},
        r \in Vectors(VecLen)}

\* rate sets whose three fields grow together: k per year along the first
\* axis of the translation, in term_d, and about the third axis
SteadyRates ==
    {ParameterSet(<<k, 0, 0>>, k, <<0, 0, k>>).value :
        k \in {x \in Coords : x <= TermDLimit}}

\* the frame names of the transforms a caller builds, and of its requests
TransformFrames == {"ITRF2008", "ETRF2000"}

RequestFrames == TransformFrames \cup {"ITRF2005"}

\* the frame names asked of the table: its own, and one it does not hold
TableFrames ==
    {TRANSFORM_TABLE[i].from_frame : i \in 1..Len(TRANSFORM_TABLE)}
        \cup {"ETRF2000", "ITRF1833"}

----------------------------------------------------------------------------
(* The caller of a DatumTransformation: it holds one transform, built from *)
(* two ParameterSets the constructor returned, and calls its methods.      *)

\* the state of a caller that holds transform t and has called nothing
Holding(t) ==
    /\ transform = t
    /\ converter = None
    /\ table = TRANSFORM_TABLE
    /\ op = "idle"
    /\ args = <<>>
    /\ result = None
    /\ threads = <<>>

\* Spec: the parameters vary over ParameterSets, the rates over SteadyRates
Init ==
    \E from_frame \in TransformFrames, to_frame \in TransformFrames,
       parameters \in ParameterSets(-TermDLimit..TermDLimit),
       rates \in SteadyRates, ref_epoch \in Epochs :
        Holding(Some(DatumTransformation(from_frame, to_frame,
                                         parameters, rates, ref_epoch)))

\* a mutant of PropagateParameters: the sum accumulated in self.parameters
\* (as "+=" would) and returned
PropagateParameters_in_place ==
    /\ op = "idle"
    /\ \E epoch \in Epochs :
        LET sum == propagate_parameters(transform[1], epoch)
        IN  /\ op' = "propagate_parameters"
            /\ args' = [epoch |-> epoch]
            /\ result' = Some(sum)
            /\ transform' = IF sum.ok
                             THEN Some([transform[1] EXCEPT
                                            !.parameters = sum.value])
                             ELSE transform
    /\ UNCHANGED <<converter, table, threads>>

\* transform.propagate_parameters(epoch)
PropagateParameters ==
    /\ op = "idle"
    /\ \E epoch \in Epochs :
        /\ op' = "propagate_parameters"
        /\ args' = [epoch |-> epoch]
        /\ result' = Some(propagate_parameters(transform[1], epoch))
    /\ UNCHANGED <<transform, converter, table, threads>>

\* fn = transform.convert_fn(from_frame, to_frame, epoch)
ConvertFn ==
    /\ op = "idle"
    /\ \E from_frame \in RequestFrames, to_frame \in RequestFrames,
          epoch \in Epochs :
        LET fn == convert_fn(transform[1], from_frame, to_frame, epoch)
        IN  /\ op' = "convert_fn"
            /\ args' = [from_frame |-> from_frame, to_frame |-> to_frame,
                        epoch |-> epoch]
            /\ result' = Some(fn)
            /\ converter' = IF fn.ok THEN Some(fn.value) ELSE converter
    /\ UNCHANGED <<transform, table, threads>>

\* a mutant of CallConverter: the rotation term accumulated in the captured
\* translation (as "translate_m += dot(rotation_matrix, xyz_m)" would)
CallConverter_accumulating ==
    /\ converter # None
    /\ op \in {"convert_fn", "main.convert_fn", "convert_function"}
    /\ \E xyz_m \in Vectors(VecLen) :
        /\ op' = "convert_function"
        /\ args' = [xyz_m |-> xyz_m]
        /\ result' = Some(Ok(convert_function(converter[1], xyz_m)))
        /\ converter' = Some([converter[1] EXCEPT !.translate_m =
                                VAdd(@, dot(converter[1].matrix, xyz_m))])
    /\ UNCHANGED <<transform, table, threads>>

\* fn(xyz_m), for the function convert_fn returned
CallConverter ==
    /\ converter # None
    /\ op \in {"convert_fn", "main.convert_fn", "convert_function"}
    /\ \E xyz_m \in Vectors(VecLen) :
        /\ op' = "convert_function"
        /\ args' = [xyz_m |-> xyz_m]
        /\ result' = Some(Ok(convert_function(converter[1], xyz_m)))
    /\ UNCHANGED <<transform, converter, table, threads>>

\* transform.convert(xyz_m, from_frame, to_frame, epoch)
Convert ==
    /\ op = "idle"
    /\ \E xyz_m \in Vectors(VecLen),
          from_frame \in RequestFrames, to_frame \in RequestFrames,
          epoch \in Epochs :
        /\ op' = "convert"
        /\ args' = [xyz_m |-> xyz_m, from_frame |-> from_frame,
                    to_frame |-> to_frame, epoch |-> epoch]
        /\ result' = Some(convert(transform[1], xyz_m, from_frame, to_frame,
                                  epoch))
    /\ UNCHANGED <<transform, converter, table, threads>>

\* the caller drops the outcome of its last call, and the function it held
Return ==
    /\ op # "idle"
    /\ op' = "idle"
    /\ args' = <<>>
    /\ result' = None
    /\ converter' = None
    /\ UNCHANGED <<transform, table, threads>>

Next ==
    \/ PropagateParameters
    \/ ConvertFn
    \/ CallConverter
    \/ Convert
    \/ Return

Spec == Init /\ [][Next]_vars

\* SpecPropagate: parameters and rates both vary over ParameterSets, and
\* the caller only propagates
InitPropagate ==
    \E from_frame \in TransformFrames, to_frame \in TransformFrames,
       parameters \in ParameterSets(-TermDLimit..TermDLimit),
       rates \in ParameterSets(-TermDLimit..TermDLimit),
       ref_epoch \in Epochs :
        Holding(Some(DatumTransformation(from_frame, to_frame,
                                         parameters, rates, ref_epoch)))

NextPropagate ==
    \/ PropagateParameters
    \/ Return

SpecPropagate == InitPropagate /\ [][NextPropagate]_vars

----------------------------------------------------------------------------
(* The caller of ParameterSet: it constructs one, then scales it or adds   *)
(* another to it, and goes on with the ParameterSet returned.              *)

\* the lengths of the sequences given to the constructor: one too short to
\* one too long
Lengths == (VecLen - 1)..(VecLen + 1)

TermDs == -MaxTermD..MaxTermD

Numbers == -MaxEpoch..MaxEpoch

InitParameterSet == Holding(None)

\* ParameterSet(translate_m, term_d, rotate_rad)
Construct ==
    /\ op = "idle"
    /\ \E n \in Lengths, m \in Lengths, term_d \in TermDs :
        \E translate_m \in Vectors(n), rotate_rad \in Vectors(m) :
            /\ op' = "ParameterSet"
            /\ args' = [translate_m |-> translate_m, term_d |-> term_d,
                        rotate_rad |-> rotate_rad]
            /\ result' = Some(ParameterSet(translate_m, term_d, rotate_rad))
    /\ UNCHANGED <<transform, converter, table, threads>>

\* ParameterSet(translate_m, term_d, rotate_rad) with a bare number given
\* for rotate_rad, for translate_m, or for both
ConstructOfNumber ==
    /\ op = "idle"
    /\ \E n \in Lengths, m \in Lengths, term_d \in TermDs :
        \E translate_m \in Vectors(n) \cup {Bare(c) : c \in Coords},
           rotate_rad \in Vectors(m) \cup {Bare(c) : c \in Coords} :
            /\ ~HasLen(translate_m) \/ ~HasLen(rotate_rad)
            /\ op' = "ParameterSet of a number"
            /\ args' = [translate_m |-> translate_m, term_d |-> term_d,
                        rotate_rad |-> rotate_rad]
            /\ result' = Some(ParameterSet(translate_m, term_d, rotate_rad))
    /\ UNCHANGED <<transform, converter, table, threads>>

\* the last call returned a ParameterSet, and one the caller goes on with:
\* its values are within the bounds of the values given to the constructor
Continues ==
    /\ op \in {"ParameterSet", "__mul__", "__add__"}
    /\ result[1].ok
    /\ result[1].value \in ParameterSets(TermDs)

\* self * number, for the ParameterSet just returned
Scale ==
    /\ Continues
    /\ \E number \in Numbers :
        /\ op' = "__mul__"
        /\ args' = [self |-> result[1].value, number |-> number]
        /\ result' = Some(__mul__(result[1].value, number))
    /\ UNCHANGED <<transform, converter, table, threads>>

\* self + other, for the ParameterSet just returned and another one
Sum ==
    /\ Continues
    /\ \E other \in ParameterSets(TermDs) :
        /\ op' = "__add__"
        /\ args' = [self |-> result[1].value, other |-> other]
        /\ result' = Some(__add__(result[1].value, other))
    /\ UNCHANGED <<transform, converter, table, threads>>

\* self.matrix(), for the ParameterSet just constructed; args.self is that
\* ParameterSet after the call, which assigns to none of its fields
Matrix ==
    /\ op = "ParameterSet"
    /\ result[1].ok
    /\ op' = "matrix"
    /\ args' = [self |-> result[1].value]
    /\ result' = Some(Ok(matrix(result[1].value)))
    /\ UNCHANGED <<transform, converter, table, threads>>

NextParameterSet ==
    \/ Construct
    \/ ConstructOfNumber
    \/ Scale
    \/ Sum
    \/ Matrix
    \/ Return

SpecParameterSet == InitParameterSet /\ [][NextParameterSet]_vars

----------------------------------------------------------------------------
(* The caller of main.find_transform.                                      *)

InitTable == Holding(None)

\* a mutant of FindTransform: the entry found is moved to the front of the
\* table, for the next search
FindTransform_move_to_front ==
    /\ op = "idle"
    /\ \E from_frame \in TableFrames, to_frame \in TableFrames :
        LET found == find_transform(table, from_frame, to_frame)
        IN  /\ op' = "find_transform"
            /\ args' = [from_frame |-> from_frame, to_frame |-> to_frame]
            /\ result' = Some(found)
            /\ table' = IF found.ok
                         THEN <<found.value>> \o
                              SelectSeq(table, LAMBDA t : t # found.value)
                         ELSE table
    /\ UNCHANGED <<transform, converter, threads>>

\* find_transform(from_frame, to_frame)
FindTransform ==
    /\ op = "idle"
    /\ \E from_frame \in TableFrames, to_frame \in TableFrames :
        /\ op' = "find_transform"
        /\ args' = [from_frame |-> from_frame, to_frame |-> to_frame]
        /\ result' = Some(find_transform(table, from_frame, to_frame))
    /\ UNCHANGED <<transform, converter, table, threads>>

NextTable ==
    \/ FindTransform
    \/ Return

SpecTable == InitTable /\ [][NextTable]_vars

----------------------------------------------------------------------------
(* The caller of forward_transform and reverse_transform: it converts a    *)
(* vector forward and converts the result back, with one translation and   *)
(* one matrix of its own choice.                                           *)

\* the 3x3 matrix whose entry (i, j) is c, the others 0
SingleEntry(i, j, c) ==
    [r \in 1..VecLen |-> [k \in 1..VecLen |->
        IF r = i /\ k = j THEN c ELSE 0]]

\* the matrices given: the sums of two matrices of a single entry, of
\* either sign, symmetric or not
Matrices ==
    LET single == {SingleEntry(i, j, c) :
                      i \in 1..VecLen, j \in 1..VecLen,
                      c \in -MaxCoord..MaxCoord}
    IN  {[r \in 1..VecLen |-> VAdd(a[r], b[r])] : a \in single, b \in single}

InitTransforms == Holding(None)

\* forward_transform(xyz_m, translate_m, rotation_matrix)
ForwardTransform ==
    /\ op = "idle"
    /\ \E xyz_m \in Vectors(VecLen), translate_m \in Vectors(VecLen),
          rotation_matrix \in Matrices :
        /\ op' = "forward_transform"
        /\ args' = [xyz_m |-> xyz_m, translate_m |-> translate_m,
                    rotation_matrix |-> rotation_matrix]
        /\ result' = Some(Ok(forward_transform(xyz_m, translate_m,
                                               rotation_matrix)))
    /\ UNCHANGED <<transform, converter, table, threads>>

\* reverse_transform of the vector forward_transform returned, with the
\* same translation and matrix
ReverseTransform ==
    /\ op = "forward_transform"
    /\ op' = "reverse_transform"
    /\ args' = [args EXCEPT !.xyz_m = result[1].value]
    /\ result' = Some(Ok(reverse_transform(result[1].value, args.translate_m,
                                           args.rotation_matrix)))
    /\ UNCHANGED <<transform, converter, table, threads>>

NextTransforms ==
    \/ ForwardTransform
    \/ ReverseTransform
    \/ Return

SpecTransforms == InitTransforms /\ [][NextTransforms]_vars

----------------------------------------------------------------------------
(* The caller of main.ETRF2000: it constructs transforms from coefficients *)
(* in the units of the memo.                                               *)

\* the number of values of a coefficient list: T1, T2, T3, D, R1, R2, R3
MemoLen == 7

\* the coefficient lists given: at most one value that is not zero, of
\* either sign
MemoValues ==
    {[i \in 1..MemoLen |-> IF i = k THEN c ELSE 0] :
        k \in 1..MemoLen, c \in -MaxCoord..MaxCoord}

InitETRF2000 == Holding(None)

\* ETRF2000(from_frame, parameters, rates, ref_epoch)
ConstructETRF2000 ==
    /\ op = "idle"
    /\ \E from_frame \in TransformFrames, parameters \in MemoValues,
          rates \in MemoValues, ref_epoch \in Epochs :
        /\ op' = "ETRF2000"
        /\ args' = [from_frame |-> from_frame, parameters |-> parameters,
                    rates |-> rates, ref_epoch |-> ref_epoch]
        /\ result' = Some(ETRF2000(from_frame, parameters, rates, ref_epoch))
    /\ UNCHANGED <<transform, converter, table, threads>>

NextETRF2000 ==
    \/ ConstructETRF2000
    \/ Return

SpecETRF2000 == InitETRF2000 /\ [][NextETRF2000]_vars

----------------------------------------------------------------------------
(* The caller of main.py: it calls find_transform, convert_fn and convert  *)
(* of the module, and the methods of a transform it took from the table.   *)

InitMain == \E i \in 1..Len(TRANSFORM_TABLE) : Holding(Some(TRANSFORM_TABLE[i]))

\* fn = main.convert_fn(from_frame, to_frame, epoch)
MainConvertFn ==
    /\ op = "idle"
    /\ \E from_frame \in TableFrames, to_frame \in TableFrames,
          epoch \in Epochs :
        LET fn == main_convert_fn(table, from_frame, to_frame, epoch)
        IN  /\ op' = "main.convert_fn"
            /\ args' = [from_frame |-> from_frame, to_frame |-> to_frame,
                        epoch |-> epoch]
            /\ result' = Some(fn)
            /\ converter' = IF fn.ok THEN Some(fn.value) ELSE converter
    /\ UNCHANGED <<transform, table, threads>>

\* main.convert(xyz_m, from_frame, to_frame, epoch)
MainConvert ==
    /\ op = "idle"
    /\ \E xyz_m \in Vectors(VecLen),
          from_frame \in TableFrames, to_frame \in TableFrames,
          epoch \in Epochs :
        /\ op' = "main.convert"
        /\ args' = [xyz_m |-> xyz_m, from_frame |-> from_frame,
                    to_frame |-> to_frame, epoch |-> epoch]
        /\ result' = Some(main_convert(table, xyz_m, from_frame, to_frame,
                                       epoch))
    /\ UNCHANGED <<transform, converter, table, threads>>

NextMain ==
    \/ FindTransform
    \/ MainConvertFn
    \/ MainConvert
    \/ ConvertFn
    \/ Convert
    \/ CallConverter
    \/ Return

SpecMain == InitMain /\ [][NextMain]_vars

----------------------------------------------------------------------------
(* Threads that call find_transform, convert_fn and convert of main.py     *)
(* concurrently.  They share the table and its transforms; each has its    *)
(* own locals.  A step of a thread is one of: the call, find_transform,    *)
(* the propagation, the test of the frames, the conversion, the return.    *)

Threads == 1..MaxThreads

\* the requests of the threads: two directions of one entry, another entry,
\* a pair the table does not hold; the reference epoch, a year before and
\* a year after; one vector
ConcurrentPairs ==
    { <<"ITRF2008", "ETRF2000">>, <<"ETRF2000", "ITRF2008">>,
      <<"ETRF2000", "ITRF2005">>, <<"ITRF2008", "ITRF2005">> }

ConcurrentEpochs == {Epoch2000 - 1, Epoch2000, Epoch2000 + 1}

ConcurrentVectors == {<<0, 1, 0>>}

\* a thread that is in no call
IdleThread ==
    [pc |-> "idle", call |-> "", xyz_m |-> <<>>, from_frame |-> "",
     to_frame |-> "", epoch |-> 0, transform |-> 0, parameters |-> None,
     fn |-> None, result |-> None]

\* a thread that enters call with these arguments
Calling(call, xyz_m, pair, epoch) ==
    [IdleThread EXCEPT !.pc = "find_transform", !.call = call,
                       !.xyz_m = xyz_m, !.from_frame = pair[1],
                       !.to_frame = pair[2], !.epoch = epoch]

InitConcurrent ==
    /\ transform = None
    /\ converter = None
    /\ table = TRANSFORM_TABLE
    /\ op = "idle"
    /\ args = <<>>
    /\ result = None
    /\ threads = [th \in Threads |-> IdleThread]

\* th calls find_transform, convert_fn or convert of main.py
ThreadCall(th) ==
    /\ threads[th].pc = "idle"
    /\ \E pair \in ConcurrentPairs :
        \/ threads' = [threads EXCEPT ![th] =
                          Calling("find_transform", <<>>, pair, 0)]
        \/ \E epoch \in ConcurrentEpochs :
              threads' = [threads EXCEPT ![th] =
                            Calling("main.convert_fn", <<>>, pair, epoch)]
        \/ \E epoch \in ConcurrentEpochs, xyz_m \in ConcurrentVectors :
              threads' = [threads EXCEPT ![th] =
                            Calling("main.convert", xyz_m, pair, epoch)]
    /\ UNCHANGED <<transform, converter, table, op, args, result>>

\* the place in tbl of the entry find_transform returned
PlaceOf(tbl, entry) ==
    CHOOSE i \in 1..Len(tbl) :
        tbl[i] = entry /\ \A j \in 1..(i - 1) : tbl[j] # entry

\* th runs find_transform on the shared table; the transform it finds is an
\* entry of the table itself, kept by its place
ThreadFindTransform(th) ==
    /\ threads[th].pc = "find_transform"
    /\ LET me    == threads[th]
           found == find_transform(table, me.from_frame, me.to_frame)
       IN  threads' = [threads EXCEPT ![th] =
             IF ~found.ok
             THEN [me EXCEPT !.pc = "done", !.result = Some(found)]
             ELSE IF me.call = "find_transform"
             THEN [me EXCEPT !.pc = "done", !.result = Some(found),
                             !.transform = PlaceOf(table, found.value)]
             ELSE [me EXCEPT !.pc = "propagate_parameters",
                             !.transform = PlaceOf(table, found.value)]]
    /\ UNCHANGED <<transform, converter, table, op, args, result>>

\* a mutant of ThreadPropagate: the propagated parameters are kept in the
\* transform, which the threads share
ThreadPropagate_caching(th) ==
    /\ threads[th].pc = "propagate_parameters"
    /\ LET me         == threads[th]
           parameters == propagate_parameters(table[me.transform], me.epoch)
       IN  /\ threads' = [threads EXCEPT ![th] =
                 IF ~parameters.ok
                 THEN [me EXCEPT !.pc = "done", !.result = Some(parameters)]
                 ELSE [me EXCEPT !.pc = "select",
                                 !.parameters = Some(parameters.value)]]
           /\ table' = IF ~parameters.ok THEN table
                        ELSE [table EXCEPT ![me.transform].parameters =
                                               parameters.value]
    /\ UNCHANGED <<transform, converter, op, args, result>>

\* th runs the first statement of DatumTransformation.convert_fn: it reads
\* the parameters, rates and ref_epoch of the shared transform
ThreadPropagate(th) ==
    /\ threads[th].pc = "propagate_parameters"
    /\ LET me         == threads[th]
           parameters == propagate_parameters(table[me.transform], me.epoch)
       IN  threads' = [threads EXCEPT ![th] =
             IF ~parameters.ok
             THEN [me EXCEPT !.pc = "done", !.result = Some(parameters)]
             ELSE [me EXCEPT !.pc = "select",
                             !.parameters = Some(parameters.value)]]
    /\ UNCHANGED <<transform, converter, table, op, args, result>>

\* th tests the frames of the shared transform and builds the function;
\* convert_fn of main.py returns it, convert goes on to call it
ThreadSelect(th) ==
    /\ threads[th].pc = "select"
    /\ LET me == threads[th]
           fn == convert_fn_selecting(table[me.transform], me.parameters[1],
                                      me.from_frame, me.to_frame)
       IN  threads' = [threads EXCEPT ![th] =
             IF ~fn.ok \/ me.call = "main.convert_fn"
             THEN [me EXCEPT !.pc = "done", !.result = Some(fn)]
             ELSE [me EXCEPT !.pc = "convert_function",
                             !.fn = Some(fn.value)]]
    /\ UNCHANGED <<transform, converter, table, op, args, result>>

\* th calls the function on its vector, and convert returns the coordinates
ThreadApply(th) ==
    /\ threads[th].pc = "convert_function"
    /\ LET me == threads[th]
       IN  threads' = [threads EXCEPT ![th] =
             [me EXCEPT !.pc = "done",
                        !.result = Some(Ok(convert_function(me.fn[1],
                                                            me.xyz_m)))]]
    /\ UNCHANGED <<transform, converter, table, op, args, result>>

\* the caller in th drops the outcome
ThreadReturn(th) ==
    /\ threads[th].pc = "done"
    /\ threads' = [threads EXCEPT ![th] = IdleThread]
    /\ UNCHANGED <<transform, converter, table, op, args, result>>

NextConcurrent ==
    \E th \in Threads :
        \/ ThreadCall(th)
        \/ ThreadFindTransform(th)
        \/ ThreadPropagate(th)
        \/ ThreadSelect(th)
        \/ ThreadApply(th)
        \/ ThreadReturn(th)

SpecConcurrent == InitConcurrent /\ [][NextConcurrent]_vars

----------------------------------------------------------------------------
(* What the claims speak of.                                               *)

\* the transform the caller holds, and the outcome of its last call
Self == transform[1]

Outcome == result[1]

Zero3 == [i \in 1..VecLen |-> 0]

\* the request of the last convert_fn or convert call names the transform's
\* own pair, in the transform's direction or against it
RequestsForward == args.from_frame = Self.from_frame /\ args.to_frame = Self.to_frame

RequestsReverse == args.from_frame = Self.to_frame /\ args.to_frame = Self.from_frame

\* the parameters propagated to the epoch of the last call
Propagated == propagate_parameters(Self, args.epoch)

----------------------------------------------------------------------------
(* C1: reverse_transform after forward_transform, with the same T and M.   *)

\* the last call applied a function that convert_fn built for the forward
\* direction
AppliedForward ==
    op = "convert_function" /\ converter[1].transform = "forward_transform"

\* reverse_transform of the coordinates that call returned, same T and M
RoundTrip ==
    reverse_transform(Outcome.value, converter[1].translate_m,
                      converter[1].matrix)

\* the second-order term M.(M.xyz) of that call
SecondOrder == dot(converter[1].matrix, dot(converter[1].matrix, args.xyz_m))

\* C1, as claimed: reverse_transform(forward_transform(xyz, T, M), T, M) is
\* xyz exactly, for every xyz, T and M of a propagated ParameterSet.
C1_RoundTripExact == AppliedForward => RoundTrip = args.xyz_m

\* C1, as amended: reverse_transform(forward_transform(xyz, T, M), T, M) is
\* xyz exactly when the second-order term M.(M.xyz) is zero, and only then.
C1_RoundTripExactIffSecondOrderZero ==
    AppliedForward => ((RoundTrip = args.xyz_m) <=> (SecondOrder = Zero3))

\* C1's case: a forward conversion whose round trip misses its input
C1_Witness ==
    /\ AppliedForward
    /\ converter[1].translate_m # Zero3
    /\ SecondOrder # Zero3
    /\ RoundTrip # args.xyz_m

----------------------------------------------------------------------------
(* C2, C3: the function convert_fn returns.                                *)

ConvertFnReturned == op = "convert_fn" /\ Outcome.ok

\* C2: convert_fn called with the transform's own ordered pair returns a
\* function that maps every xyz to xyz + T + M.xyz, T and M being the
\* translation and the matrix() of propagate_parameters(epoch).
C2_ForwardFormula ==
    (ConvertFnReturned /\ RequestsForward) =>
        /\ Propagated.ok
        /\ \A xyz \in Vectors(VecLen) :
            convert_function(Outcome.value, xyz) =
                VAdd(VAdd(xyz, Propagated.value.translate_m),
                     dot(matrix(Propagated.value), xyz))

\* C2's case: a forward function whose T and M differ from those of the
\* reference epoch
C2_Witness ==
    /\ ConvertFnReturned /\ RequestsForward
    /\ Propagated.value.translate_m # Self.parameters.translate_m
    /\ matrix(Propagated.value) # matrix(Self.parameters)
    /\ Propagated.value.translate_m # Zero3

\* what C3 says of the function returned: it maps every xyz to
\* xyz - T - M.(xyz - T), and T and M are those of the forward function of
\* the same epoch
ReverseFormula ==
    LET forward == convert_fn(Self, Self.from_frame, Self.to_frame, args.epoch)
    IN  /\ Propagated.ok
        /\ forward.ok
        /\ Outcome.value.translate_m = forward.value.translate_m
        /\ Outcome.value.matrix = forward.value.matrix
        /\ \A xyz \in Vectors(VecLen) :
            convert_function(Outcome.value, xyz) =
                VSub(VSub(xyz, Propagated.value.translate_m),
                     dot(matrix(Propagated.value),
                         VSub(xyz, Propagated.value.translate_m)))

----------------------------------------------------------------------------
(* C4: a request for a pair the transform does not support.                *)

Unsupported ==
    /\ op \in {"convert_fn", "convert"}
    /\ ~RequestsForward
    /\ ~RequestsReverse

\* the unsupported-frame error: the requested pair, then the supported one
UnsupportedFrameError ==
    Raise("ValueError", <<"No transform", args.from_frame, args.to_frame,
                          Self.to_frame, Self.from_frame>>)

\* C4, as claimed: convert_fn and convert fail with the unsupported-frame
\* error, and return nothing, whenever the requested ordered pair is
\* neither the transform's pair nor its reverse.
C4_UnsupportedFrameError ==
    Unsupported => (Outcome = UnsupportedFrameError /\ converter = None)

\* C4, as amended: they fail with a ValueError and return nothing; the
\* error is the unsupported-frame error when propagation to the epoch
\* succeeds, and the ValueError of the propagation when it does not.
C4_UnsupportedFails ==
    Unsupported =>
        /\ ~Outcome.ok
        /\ Outcome.error = "ValueError"
        /\ converter = None
        /\ Propagated.ok => Outcome = UnsupportedFrameError
        /\ ~Propagated.ok => Outcome = Propagated

\* C4's cases: one name of the transform's, both names equal, a failing
\* propagation; each seen for convert_fn and for convert
C4_Witness ==
    /\ Unsupported
    /\ op = "convert"
    /\ args.from_frame = Self.to_frame
    /\ args.to_frame \notin {Self.from_frame, Self.to_frame}
    /\ Outcome = UnsupportedFrameError

----------------------------------------------------------------------------
(* C7, C8, C9: propagate_parameters.                                       *)

Propagating == op = "propagate_parameters"

\* epoch - ref_epoch of the last call
Delta == args.epoch - Self.ref_epoch

\* C7: the ParameterSet propagate_parameters(epoch) returns has, component
\* by component, translate_m, term_d and rotate_rad equal to
\* parameters + rates * (epoch - ref_epoch).
C7_PropagatedFields ==
    (Propagating /\ Outcome.ok) =>
        /\ Len(Outcome.value.translate_m) = VecLen
        /\ Len(Outcome.value.rotate_rad) = VecLen
        /\ \A i \in 1..VecLen :
            /\ Outcome.value.translate_m[i] =
                 Self.parameters.translate_m[i] + Self.rates.translate_m[i] * Delta
            /\ Outcome.value.rotate_rad[i] =
                 Self.parameters.rotate_rad[i] + Self.rates.rotate_rad[i] * Delta
        /\ Outcome.value.term_d =
             Self.parameters.term_d + Self.rates.term_d * Delta

\* C7's case: a propagation that changes all three fields
C7_Witness ==
    /\ Propagating /\ Outcome.ok
    /\ Delta < 0
    /\ Outcome.value.translate_m # Self.parameters.translate_m
    /\ Outcome.value.term_d # Self.parameters.term_d
    /\ Outcome.value.rotate_rad # Self.parameters.rotate_rad

\* C8: propagate_parameters(ref_epoch) returns a ParameterSet equal field
\* by field to self.parameters.
C8_ReferenceEpochIdentity ==
    (Propagating /\ args.epoch = Self.ref_epoch) =>
        /\ Outcome.ok
        /\ Outcome.value.translate_m = Self.parameters.translate_m
        /\ Outcome.value.term_d = Self.parameters.term_d
        /\ Outcome.value.rotate_rad = Self.parameters.rotate_rad

\* C8's case: propagation to a reference epoch other than 0, with rates
\* that are not zero
C8_Witness ==
    /\ Propagating /\ args.epoch = Self.ref_epoch
    /\ Self.ref_epoch # 0
    /\ Self.rates.translate_m # Zero3
    /\ Self.rates.term_d # 0
    /\ Outcome.ok

\* the epochs of C9: t0 the reference epoch, t2 the epoch of the last call,
\* t1 half way when t2 - t0 is even
EvenDelta == Propagating /\ Delta % 2 = 0

HalfDelta == Delta \div 2

\* P + R*(t1 - t0) + R*(t2 - t1), evaluated left to right as Python does
TwoSteps ==
    LET first == __mul__(Self.rates, HalfDelta)
    IN  IF ~first.ok THEN first
        ELSE LET middle == __add__(Self.parameters, first.value)
             IN  IF ~middle.ok THEN middle
                 ELSE LET second == __mul__(Self.rates, Delta - HalfDelta)
                      IN  IF ~second.ok THEN second
                          ELSE __add__(middle.value, second.value)

\* C9, as claimed: for all P, R and epochs with t2 = t0 + 2*(t1 - t0),
\* P + R*(t1 - t0) + R*(t2 - t1) equals P + R*(t2 - t0) field by field:
\* when either side is a ParameterSet, the other is an equal one.
C9_LinearForAllEpochs ==
    (EvenDelta /\ (TwoSteps.ok \/ Outcome.ok)) =>
        (TwoSteps.ok /\ Outcome.ok /\ TwoSteps.value = Outcome.value)

\* C9, as amended: when P + R*(t2 - t0) is a ParameterSet, so is
\* P + R*(t1 - t0) + R*(t2 - t1), and the two are equal field by field.
C9_LinearWhenPropagated ==
    (EvenDelta /\ Outcome.ok) =>
        (TwoSteps.ok /\ TwoSteps.value = Outcome.value)

\* C9's case: two steps of one year, with rates that are not zero
C9_Witness ==
    /\ EvenDelta /\ Outcome.ok
    /\ HalfDelta # 0
    /\ Self.rates.term_d # 0
    /\ Self.rates.rotate_rad # Zero3
    /\ TwoSteps.value = Outcome.value

----------------------------------------------------------------------------
(* C5, C6: the checks of the ParameterSet constructor.                     *)

Constructing == op = "ParameterSet"

ValidationError == ~Outcome.ok /\ Outcome.error = "ValueError"

\* the magnitude of the term_d given
Magnitude == IF args.term_d < 0 THEN -args.term_d ELSE args.term_d

\* C5: constructing a ParameterSet fails with a ValueError whenever
\* translate_m or rotate_rad does not have exactly 3 components, and
\* succeeds, with the fields given, when both have 3 and term_d is small.
C5_LengthsChecked ==
    Constructing =>
        /\ (Len(args.translate_m) # 3 \/ Len(args.rotate_rad) # 3)
              => ValidationError
        /\ (Len(args.translate_m) = 3 /\ Len(args.rotate_rad) = 3
              /\ Magnitude <= TermDLimit)
              => Outcome = Ok([translate_m |-> args.translate_m,
                               term_d      |-> args.term_d,
                               rotate_rad  |-> args.rotate_rad])

\* C5's case: only rotate_rad is wrong, one component too many
C5_Witness ==
    /\ Constructing
    /\ Len(args.translate_m) = 3
    /\ Magnitude <= TermDLimit
    /\ Len(args.rotate_rad) = 4
    /\ ValidationError
    /\ Outcome.message[1] = "rotate_rad"

\* C6: constructing a ParameterSet fails with a validation error whenever
\* the magnitude of term_d exceeds 1e-6, for positive and for negative
\* term_d.
C6_MagnitudeChecked ==
    (Constructing /\ Magnitude > TermDLimit) => ValidationError

----------------------------------------------------------------------------
(* C10: find_transform.                                                    *)

Finding == op = "find_transform"

\* the places of the table whose unordered pair of frames is the requested
\* unordered pair
PlacesOfPair ==
    {i \in 1..Len(table) :
        {table[i].from_frame, table[i].to_frame} =
            {args.from_frame, args.to_frame}}

FirstPlace == CHOOSE i \in PlacesOfPair : \A j \in PlacesOfPair : i <= j

\* C10: find_transform returns the first entry of the table, in table
\* order, whose unordered pair of frames equals the requested unordered
\* pair, and the same entry when from_frame and to_frame are exchanged.
C10_FirstOfUnorderedPair ==
    Finding =>
        /\ PlacesOfPair # {} => Outcome = Ok(table[FirstPlace])
        /\ Outcome.ok =>
            /\ PlacesOfPair # {}
            /\ find_transform(table, args.to_frame, args.from_frame) = Outcome

\* C10's case: the entry of ITRF2000, asked for against its direction
C10_Witness ==
    /\ Finding
    /\ args.from_frame = "ETRF2000"
    /\ args.to_frame = "ITRF2000"
    /\ Outcome.ok
    /\ Outcome.value = table[3]
    /\ Outcome.value.from_frame = "ITRF2000"

----------------------------------------------------------------------------
(* C11: the requests no entry of the table matches.                        *)

\* the last call was one of the three functions of main.py
CallingMain == op \in {"find_transform", "main.convert_fn", "main.convert"}

\* the frames the table knows: the source frames and 'ETRF2000'
SourceFrames == {table[i].from_frame : i \in 1..Len(table)}

KnownFrames == SourceFrames \cup {table[i].to_frame : i \in 1..Len(table)}

\* the three cases of C11
UnknownFrame ==
    args.from_frame \notin KnownFrames \/ args.to_frame \notin KnownFrames

UnpairedSources ==
    args.from_frame \in SourceFrames /\ args.to_frame \in SourceFrames

EqualFrames == args.from_frame = args.to_frame

\* the not-found error, with both names
NotFoundError ==
    Raise("KeyError", <<"No transform in TRANSFORM_TABLE",
                        args.from_frame, args.to_frame>>)

\* C11: find_transform, and with it the convert_fn and the convert of
\* main.py, fail with the KeyError naming both frames whenever no entry of
\* the table has the requested unordered pair of frames: for an unknown
\* frame name, for two source frames, and for two equal names; and they
\* fail with it in no other case.
C11_NotFound ==
    CallingMain =>
        /\ (UnknownFrame \/ UnpairedSources \/ EqualFrames) => PlacesOfPair = {}
        /\ PlacesOfPair = {} => (Outcome = NotFoundError /\ converter = None)
        /\ Outcome = NotFoundError => PlacesOfPair = {}

\* C11's case: convert of main.py asked for two source frames that each
\* have an entry to ETRF2000
C11_Witness ==
    /\ op = "main.convert"
    /\ args.from_frame = "ITRF2008"
    /\ args.to_frame = "ITRF2005"
    /\ UnpairedSources
    /\ Outcome = NotFoundError

----------------------------------------------------------------------------
(* C12: convert and convert_fn.                                            *)

\* the outcome of calling fn(xyz_m), fn being the outcome of a convert_fn:
\* its exception when it raised, the coordinates its function returns
\* otherwise
Applied(fn, xyz_m) ==
    IF fn.ok THEN Ok(convert_function(fn.value, xyz_m)) ELSE fn

\* C12: convert(xyz, from_frame, to_frame, epoch) yields what
\* convert_fn(from_frame, to_frame, epoch) applied to xyz yields, the same
\* coordinates or the same error, for the convert of a DatumTransformation
\* and for the convert of main.py.
C12_ConvertIsConvertFnApplied ==
    /\ op = "convert" =>
          Outcome = Applied(convert_fn(Self, args.from_frame, args.to_frame,
                                       args.epoch), args.xyz_m)
    /\ op = "main.convert" =>
          Outcome = Applied(main_convert_fn(table, args.from_frame,
                                            args.to_frame, args.epoch),
                            args.xyz_m)

\* C12's case: convert of main.py returns coordinates, against the
\* direction of the entry and away from its reference epoch
C12_Witness ==
    /\ op = "main.convert"
    /\ args.from_frame = "ETRF2000"
    /\ args.epoch # Epoch2000
    /\ Outcome.ok
    /\ Outcome.value # args.xyz_m
    /\ main_convert_fn(table, args.from_frame, args.to_frame, args.epoch).ok

----------------------------------------------------------------------------
(* C13: the errors of a transform built from two ParameterSets the         *)
(* constructor returned.                                                   *)

\* the last call was a method of the transform
UsingTransform == op \in {"propagate_parameters", "convert_fn", "convert"}

\* it named a pair of frames the transform supports, or none at all
Supported ==
    IF op = "propagate_parameters" THEN TRUE
    ELSE RequestsForward \/ RequestsReverse

\* term_d of rates * (epoch - ref_epoch), and of the sum with parameters,
\* both pass the check of the constructor
PropagationPasses ==
    /\ Self.rates.term_d * Delta <= TermDLimit
    /\ Self.parameters.term_d + Self.rates.term_d * Delta <= TermDLimit

\* the validation error of the constructor for term_d
TermDError ==
    /\ ~Outcome.ok
    /\ Outcome.error = "ValueError"
    /\ Outcome.message[1] = "term_d"

\* the frame-pair mismatch, the error of a convert_fn or convert call
MismatchError ==
    op # "propagate_parameters" /\ Outcome = UnsupportedFrameError

\* C13, as claimed: such a transform never raises a validation error:
\* propagate_parameters returns a ParameterSet for every epoch, convert_fn
\* and convert return a result on a supported pair for every epoch and
\* vector, and the only error is the frame-pair mismatch.
C13_NeverAtUse ==
    UsingTransform =>
        /\ Supported => Outcome.ok
        /\ Outcome.ok \/ MismatchError

\* C13, as amended: propagation constructs ParameterSets, and their check
\* of term_d can fail at use: propagate_parameters, and convert_fn and
\* convert on a supported pair, return a result exactly at the epochs where
\* rates.term_d * (epoch - ref_epoch) and its sum with parameters.term_d are
\* both at most 1e-6, for every vector; the errors of such a transform are
\* the frame-pair mismatch and the ValueError of that check.
C13_ValidationAtUse ==
    UsingTransform =>
        /\ Supported => (Outcome.ok <=> PropagationPasses)
        /\ Outcome.ok \/ MismatchError \/ TermDError
        /\ TermDError => ~PropagationPasses
        /\ MismatchError => PropagationPasses

\* C13's case: convert on the transform's own pair raises the validation
\* error, with a term_d of the parameters that is not negative
C13_Witness ==
    /\ op = "convert"
    /\ RequestsForward
    /\ Self.from_frame # Self.to_frame
    /\ Self.parameters.term_d >= 0
    /\ Self.rates.term_d > 0
    /\ TermDError
    /\ ~PropagationPasses

----------------------------------------------------------------------------
(* C14: ParameterSet.matrix.                                               *)

\* C14: matrix() returns [[D, -R3, R2], [R3, D, -R1], [-R2, R1, D]] with
\* (R1, R2, R3) = rotate_rad and D = term_d, so the three diagonal entries
\* are D and M[i][j] = -M[j][i] off the diagonal; and the ParameterSet has
\* after the call the fields it had before.
C14_Matrix ==
    [][op' = "matrix" =>
        LET self == result[1].value
            M    == result'[1].value
            D    == self.term_d
            R1   == self.rotate_rad[1]
            R2   == self.rotate_rad[2]
            R3   == self.rotate_rad[3]
        IN  /\ result'[1].ok
            /\ M = << <<D, -R3, R2>>, <<R3, D, -R1>>, <<-R2, R1, D>> >>
            /\ \A i \in 1..VecLen : M[i][i] = D
            /\ \A i \in 1..VecLen, j \in 1..VecLen :
                  i # j => M[i][j] = -M[j][i]
            /\ args'.self = self]_vars

\* C14's case: the matrix of a ParameterSet with a term_d and a rotation
\* about the third axis
C14_Witness ==
    /\ op = "matrix"
    /\ args.self.term_d < 0
    /\ args.self.rotate_rad[3] > 0
    /\ Outcome.value[1][2] = -args.self.rotate_rad[3]
    /\ Outcome.value[2][1] = args.self.rotate_rad[3]
    /\ Outcome.value[3][3] = args.self.term_d

----------------------------------------------------------------------------
(* C15: the operands of addition, scaling and propagation.                 *)

\* C15: propagate_parameters, and the scaling of the rates and the
\* addition to the parameters it is made of, leave their operands as they
\* were: after any sequence of calls the transform has the parameters, the
\* rates and the ref_epoch (and the frames) it had before.
C15_OperandsUnchanged ==
    [][/\ transform'[1].parameters = transform[1].parameters
       /\ transform'[1].rates = transform[1].rates
       /\ transform'[1].ref_epoch = transform[1].ref_epoch
       /\ transform' = transform]_vars

\* C15's case: a propagation returned a sum that differs from both
\* operands, and the transform still propagates to its own parameters at
\* the reference epoch
C15_Witness ==
    /\ Propagating /\ Outcome.ok
    /\ Delta > 0
    /\ Outcome.value.translate_m # Self.parameters.translate_m
    /\ Outcome.value.rotate_rad # Self.rates.rotate_rad
    /\ Outcome.value # Self.parameters
    /\ Outcome.value # Self.rates
    /\ propagate_parameters(Self, Self.ref_epoch) = Ok(Self.parameters)

----------------------------------------------------------------------------
(* C16: the function convert_fn returns, called again and again.           *)

\* C16: the function convert_fn returned captures the translation and the
\* matrix propagated to the epoch of that call; every later invocation
\* leaves them as they are and applies them to its input, so that the
\* output depends on the input alone, whatever was converted before.
C16_Stateless ==
    [][/\ (op' = "convert_fn" /\ result'[1].ok) =>
            LET parameters == propagate_parameters(transform[1], args'.epoch)
            IN  /\ converter' = Some(result'[1].value)
                /\ converter'[1].translate_m = parameters.value.translate_m
                /\ converter'[1].matrix = matrix(parameters.value)
       /\ op' = "convert_function" =>
            LET T   == converter[1].translate_m
                M   == converter[1].matrix
                xyz == args'.xyz_m
            IN  /\ converter' = converter
                /\ result'[1].ok
                /\ result'[1].value =
                      IF converter[1].transform = "forward_transform"
                      THEN VAdd(VAdd(xyz, T), dot(M, xyz))
                      ELSE VSub(VSub(xyz, T), dot(M, VSub(xyz, T)))]_vars

\* C16's case: an invocation of a function with a translation and a matrix
\* that move its input
C16_Witness ==
    /\ op = "convert_function"
    /\ converter[1].translate_m # Zero3
    /\ dot(converter[1].matrix, args.xyz_m) # Zero3
    /\ Outcome = Ok(convert_function(converter[1], args.xyz_m))
    /\ Outcome.value # args.xyz_m

----------------------------------------------------------------------------
(* C17: the entries of the table.                                          *)

\* C17: every entry of TRANSFORM_TABLE has to_frame 'ETRF2000' and a
\* from_frame other than 'ETRF2000', and no two entries have the same
\* from_frame.
C17_TableEntries ==
    /\ \A i \in 1..Len(table) :
        /\ table[i].to_frame = "ETRF2000"
        /\ table[i].from_frame # "ETRF2000"
    /\ \A i \in 1..Len(table), j \in 1..Len(table) :
        i # j => table[i].from_frame # table[j].from_frame

\* C17's case: the table of 11 entries, searched to its last entry; the
\* entries of ITRF97 and ITRF96 differ by their from_frame alone
C17_Witness ==
    /\ Finding
    /\ Len(table) = 11
    /\ Cardinality(SourceFrames) = 11
    /\ Outcome = Ok(table[11])
    /\ table[4].parameters = table[5].parameters
    /\ table[4].rates = table[5].rates

----------------------------------------------------------------------------
(* C18: the two frames of a DatumTransformation.                           *)

\* C18: every DatumTransformation, an entry of the table or one built
\* through the constructor, has a from_frame that differs from its
\* to_frame.
C18_DistinctFrames ==
    /\ \A i \in 1..Len(table) : table[i].from_frame # table[i].to_frame
    /\ transform # None => Self.from_frame # Self.to_frame

----------------------------------------------------------------------------
(* C19: the table under the calls of main.py.                              *)

\* C19: after any sequence of find_transform, convert_fn and convert calls,
\* returning or raising, TRANSFORM_TABLE has the entries it had when the
\* module was loaded, in the same order, each with the same from_frame,
\* to_frame, parameters, rates and ref_epoch.
C19_TableReadOnly ==
    /\ Len(table) = Len(TRANSFORM_TABLE)
    /\ \A i \in 1..Len(TRANSFORM_TABLE) :
        /\ table[i].from_frame = TRANSFORM_TABLE[i].from_frame
        /\ table[i].to_frame = TRANSFORM_TABLE[i].to_frame
        /\ table[i].parameters = TRANSFORM_TABLE[i].parameters
        /\ table[i].rates = TRANSFORM_TABLE[i].rates
        /\ table[i].ref_epoch = TRANSFORM_TABLE[i].ref_epoch

\* C19's case: convert_fn of main.py found the second entry and raised in
\* its propagation; the entry is as it was
C19_Witness ==
    /\ op = "main.convert_fn"
    /\ args.to_frame = "ITRF2005"
    /\ ~Outcome.ok
    /\ Outcome.error = "ValueError"
    /\ find_transform(table, args.from_frame, args.to_frame) = Ok(table[2])
    /\ table[2] = TRANSFORM_TABLE[2]

----------------------------------------------------------------------------
(* C20: concurrent calls of main.py.                                       *)

\* what the call of thread th returns when it runs alone, on the table as
\* the module built it
Alone(th) ==
    LET me == threads[th]
    IN  CASE me.call = "find_transform" ->
               find_transform(TRANSFORM_TABLE, me.from_frame, me.to_frame)
          [] me.call = "main.convert_fn" ->
               main_convert_fn(TRANSFORM_TABLE, me.from_frame, me.to_frame,
                               me.epoch)
          [] me.call = "main.convert" ->
               main_convert(TRANSFORM_TABLE, me.xyz_m, me.from_frame,
                            me.to_frame, me.epoch)

\* C20: under every interleaving of the steps of concurrent convert,
\* convert_fn and find_transform calls that share the table and its
\* transforms, without any lock, every call that ends returns or raises
\* what it returns or raises when it runs alone.
C20_ConcurrentCallsAsAlone ==
    \A th \in Threads :
        threads[th].pc = "done" => threads[th].result = Some(Alone(th))

\* C20's case: a convert that used the first entry has ended with
\* coordinates while a convert_fn in the other direction, at another epoch,
\* is between its propagation of that same entry and its test of the frames
C20_Witness ==
    \E th \in Threads, other \in Threads :
        /\ th # other
        /\ threads[th].pc = "done"
        /\ threads[th].call = "main.convert"
        /\ threads[th].result[1].ok
        /\ threads[th].result[1].value # threads[th].xyz_m
        /\ threads[other].pc = "select"
        /\ threads[other].call = "main.convert_fn"
        /\ threads[other].transform = threads[th].transform
        /\ threads[other].from_frame = threads[th].to_frame
        /\ threads[other].epoch # threads[th].epoch

----------------------------------------------------------------------------
(* C21: the ETRF2000 constructor.                                          *)

\* what C21 says a list [T1, T2, T3, D, R1, R2, R3] of the memo becomes:
\* T times 0.001, D times 1e-9, R times pi/(180*3600*1000)
Converted(memo) ==
    [translate_m |-> <<memo[1] * mm, memo[2] * mm, memo[3] * mm>>,
     term_d      |-> memo[4] * nano,
     rotate_rad  |-> <<memo[5] * mas, memo[6] * mas, memo[7] * mas>>]

\* C21: ETRF2000 builds, from two lists of 7 values in the order
\* [T1, T2, T3, D, R1, R2, R3], a DatumTransformation with to_frame
\* 'ETRF2000' whose parameters have translate_m = values 0..2 times 0.001,
\* term_d = value 3 times 1e-9 and rotate_rad = values 4..6 times
\* pi/(180*3600*1000), and whose rates are converted the same way; it
\* fails only when a converted term_d does not pass the check of
\* ParameterSet.
C21_MemoUnits ==
    op = "ETRF2000" =>
        /\ Outcome.ok =>
            /\ Outcome.value.from_frame = args.from_frame
            /\ Outcome.value.to_frame = "ETRF2000"
            /\ Outcome.value.parameters = Converted(args.parameters)
            /\ Outcome.value.rates = Converted(args.rates)
            /\ Outcome.value.ref_epoch = args.ref_epoch
        /\ Outcome.ok <=> /\ args.parameters[4] * nano <= TermDLimit
                          /\ args.rates[4] * nano <= TermDLimit

\* C21's case: a D among the parameters and a rotation among the rates,
\* each converted by its own unit
C21_Witness ==
    /\ op = "ETRF2000"
    /\ Outcome.ok
    /\ args.parameters[4] < 0
    /\ args.rates[6] > 0
    /\ Outcome.value.parameters.term_d = args.parameters[4] * nano
    /\ Outcome.value.rates.rotate_rad[2] = args.rates[6] * mas
    /\ Outcome.value.rates.rotate_rad[2] # args.rates[6]

----------------------------------------------------------------------------
(* C22: the order of propagation and direction in convert_fn.              *)

\* C22: convert_fn (and convert, through it) propagates the parameters to
\* the epoch before it tests the frames: at an epoch where the propagation
\* fails the call raises the error of the propagation, for an unsupported
\* pair as for a supported one, and the unsupported-frame error is raised
\* only at epochs where the propagation passes.
C22_PropagationFirst ==
    op \in {"convert_fn", "convert"} =>
        /\ ~PropagationPasses =>
            /\ TermDError
            /\ Outcome # UnsupportedFrameError
            /\ Outcome = propagate_parameters(Self, args.epoch)
        /\ (Unsupported /\ PropagationPasses) =>
            Outcome = UnsupportedFrameError

\* C22's case: convert_fn asked for a pair the transform does not support,
\* at an epoch where the propagated term_d is too large
C22_Witness ==
    /\ op = "convert_fn"
    /\ Unsupported
    /\ Self.from_frame # Self.to_frame
    /\ Self.parameters.term_d >= 0
    /\ ~PropagationPasses
    /\ TermDError
    /\ Outcome.message[2] > TermDLimit

----------------------------------------------------------------------------
(* C23: the transform find_transform returns, used for the request.        *)

\* what find_transform gives for the frames of the last call
Found == find_transform(table, args.from_frame, args.to_frame)

\* the transform found has the requested pair, or its reverse
FoundForward ==
    /\ args.from_frame = Found.value.from_frame
    /\ args.to_frame = Found.value.to_frame

FoundReverse ==
    /\ args.from_frame = Found.value.to_frame
    /\ args.to_frame = Found.value.from_frame

\* the last call raised the unsupported-frame error of a transform
RaisedUnsupported ==
    /\ ~Outcome.ok
    /\ Outcome.error = "ValueError"
    /\ Outcome.message[1] = "No transform"

\* C23: whenever find_transform succeeds, the transform it returns has the
\* requested ordered pair in one direction and not in the other, so that
\* convert_fn and convert of main.py never raise the unsupported-frame
\* error: they return, or raise the KeyError of find_transform or the
\* error of the propagation.
C23_FoundSupportsRequest ==
    CallingMain =>
        /\ Found.ok => (FoundForward /\ ~FoundReverse)
                          \/ (FoundReverse /\ ~FoundForward)
        /\ ~RaisedUnsupported
        /\ (op # "find_transform" /\ Found.ok) =>
              (Outcome.ok \/ Outcome = propagate_parameters(Found.value,
                                                           args.epoch))

\* C23's case: convert_fn of main.py asked for ETRF2000 -> ITRF93 returns
\* the reverse function of the entry of ITRF93
C23_Witness ==
    /\ op = "main.convert_fn"
    /\ args.from_frame = "ETRF2000"
    /\ args.to_frame = "ITRF93"
    /\ Found.ok
    /\ FoundReverse
    /\ Outcome.ok
    /\ Outcome.value.transform = "reverse_transform"

----------------------------------------------------------------------------
(* C24: the residual of the round trip.                                    *)

\* C24: reverse_transform(forward_transform(xyz, T, M), T, M) is
\* xyz - M.(M.xyz) for every xyz, T and M: the residual is the second-order
\* term, whatever T is, and the round trip returns xyz when M is the zero
\* matrix.
C24_RoundTripResidual ==
    [][(op = "forward_transform" /\ op' = "reverse_transform") =>
        LET xyz == args.xyz_m
            M   == args.rotation_matrix
        IN  /\ result'[1].value = VSub(xyz, dot(M, dot(M, xyz)))
            /\ (\A i \in 1..VecLen : M[i] = Zero3) =>
                  result'[1].value = xyz]_vars

\* C24's case: a round trip with a translation and a matrix that is not of
\* the form of ParameterSet.matrix(), which misses the vector it started
\* from
C24_Witness ==
    /\ op = "reverse_transform"
    /\ args.translate_m # Zero3
    /\ args.rotation_matrix[1][2] # -args.rotation_matrix[2][1]
    /\ \E xyz \in Vectors(VecLen) :
        /\ forward_transform(xyz, args.translate_m, args.rotation_matrix)
             = args.xyz_m
        /\ Outcome.value # xyz
        /\ Outcome.value =
             VSub(xyz, dot(args.rotation_matrix,
                           dot(args.rotation_matrix, xyz)))

----------------------------------------------------------------------------
(* C25: the two checks of a propagation.                                   *)

\* term_d of rates * (epoch - ref_epoch)
ScaledTermD == Self.rates.term_d * Delta

\* term_d of parameters + rates * (epoch - ref_epoch)
SumTermD == Self.parameters.term_d + ScaledTermD

\* C25: with dt = epoch - ref_epoch, propagate_parameters(epoch) raises
\* ValueError exactly when rates.term_d * dt > 1e-6 or
\* parameters.term_d + rates.term_d * dt > 1e-6, and returns a ParameterSet
\* otherwise; the check of the scaled rates comes first, and it fails on
\* its own value even when the sum would pass.
C25_BothChecked ==
    Propagating =>
        /\ ScaledTermD > TermDLimit =>
              Outcome = Raise("ValueError", <<"term_d", ScaledTermD>>)
        /\ (ScaledTermD <= TermDLimit /\ SumTermD > TermDLimit) =>
              Outcome = Raise("ValueError", <<"term_d", SumTermD>>)
        /\ (ScaledTermD <= TermDLimit /\ SumTermD <= TermDLimit) =>
              /\ Outcome.ok
              /\ DOMAIN Outcome.value = {"translate_m", "term_d", "rotate_rad"}
              /\ Outcome.value.term_d = SumTermD

\* C25's case: the scaled rates fail the check, the sum would have passed
C25_Witness ==
    /\ Propagating
    /\ ScaledTermD > TermDLimit
    /\ SumTermD <= TermDLimit
    /\ ValidationError
    /\ Outcome.message = <<"term_d", ScaledTermD>>

----------------------------------------------------------------------------
(* C26: the ParameterSets returned.                                        *)

\* the last call was the constructor, a scaling or an addition
ReturningParameterSet == op \in {"ParameterSet", "__mul__", "__add__"}

\* term_d of the ParameterSet the last call builds
ResultingTermD ==
    IF op = "__mul__" THEN args.self.term_d * args.number
    ELSE IF op = "__add__" THEN args.self.term_d + args.other.term_d
    ELSE args.term_d

\* C26: after any sequence of constructions, additions and scalings, every
\* ParameterSet returned has translate_m and rotate_rad of exactly 3
\* components and term_d <= 1e-6, the value 1e-6 itself being accepted;
\* addition and scaling fail with ValueError when the resulting term_d
\* exceeds 1e-6.
C26_ReturnedAreValid ==
    ReturningParameterSet =>
        /\ Outcome.ok =>
            /\ Len(Outcome.value.translate_m) = VecLen
            /\ Len(Outcome.value.rotate_rad) = VecLen
            /\ Outcome.value.term_d <= TermDLimit
        /\ ~Constructing =>
            /\ ResultingTermD > TermDLimit =>
                  (ValidationError /\ Outcome.message[1] = "term_d")
            /\ ResultingTermD <= TermDLimit =>
                  (Outcome.ok /\ Outcome.value.term_d = ResultingTermD)

\* C26's case: a ParameterSet with term_d of exactly 1e-6 was returned, and
\* the addition of another one to it fails on the resulting term_d
C26_Witness ==
    /\ op = "__add__"
    /\ args.self.term_d = TermDLimit
    /\ args.other.term_d > 0
    /\ ValidationError
    /\ Outcome.message = <<"term_d", ResultingTermD>>

----------------------------------------------------------------------------
(* C27: the order of the table.                                            *)

\* the entries of the table matching the last request
Matches == Matching(table, {args.to_frame, args.from_frame})

\* the table with the entries of places i and j exchanged
Exchanged(i, j) ==
    [k \in 1..Len(table) |->
        IF k = i THEN table[j] ELSE IF k = j THEN table[i] ELSE table[k]]

\* the table in the opposite order
Reversed == [k \in 1..Len(table) |-> table[Len(table) + 1 - k]]

\* C27: for every requested frame pair at most one entry of the table
\* matches in find_transform, so the entry returned does not depend on the
\* order of the table: the search gives the same outcome on the table with
\* any two entries exchanged and on the table in the opposite order.
C27_AtMostOneMatch ==
    Finding =>
        /\ Len(Matches) <= 1
        /\ \A i \in 1..Len(table), j \in 1..Len(table) :
            find_transform(Exchanged(i, j), args.from_frame, args.to_frame)
                = Outcome
        /\ find_transform(Reversed, args.from_frame, args.to_frame) = Outcome

\* C27's case: a request that one entry matches, not the first of the table
C27_Witness ==
    /\ Finding
    /\ Outcome.ok
    /\ Matches = <<Outcome.value>>
    /\ Outcome.value # table[1]
    /\ find_transform(Reversed, args.from_frame, args.to_frame) = Outcome

----------------------------------------------------------------------------
(* C28: the order of the checks of the constructor.                        *)

\* the last call was the constructor, whatever it was given
ConstructingAny == op \in {"ParameterSet", "ParameterSet of a number"}

\* the first check, of the length of translate_m, passes
TranslatePasses ==
    HasLen(args.translate_m) /\ Len(args.translate_m) = VecLen

\* the second check, of term_d, passes
TermDPasses == args.term_d <= TermDLimit

\* C28: the constructor checks the length of translate_m, then
\* term_d > 1e-6, then the length of rotate_rad, and reports only the first
\* check that fails; a rotate_rad that is a bare number fails with
\* TypeError rather than ValueError, and only when the two earlier checks
\* have passed.
C28_CheckOrder ==
    ConstructingAny =>
        /\ (HasLen(args.translate_m) /\ Len(args.translate_m) # VecLen) =>
              Outcome = Raise("ValueError", <<"translate_m", args.translate_m>>)
        /\ (TranslatePasses /\ ~TermDPasses) =>
              Outcome = Raise("ValueError", <<"term_d", args.term_d>>)
        /\ (TranslatePasses /\ TermDPasses /\ HasLen(args.rotate_rad)
              /\ Len(args.rotate_rad) # VecLen) =>
              Outcome = Raise("ValueError", <<"rotate_rad", args.rotate_rad>>)
        /\ ~HasLen(args.translate_m) =>
              Outcome = Raise("TypeError", <<"len", args.translate_m>>)
        /\ (HasLen(args.translate_m) /\ ~HasLen(args.rotate_rad)) =>
            /\ ~Outcome.ok
            /\ Outcome.error \in {"ValueError", "TypeError"}
            /\ Outcome.error = "TypeError" <=> (TranslatePasses /\ TermDPasses)
            /\ Outcome.error = "TypeError" =>
                  Outcome.message = <<"len", args.rotate_rad>>

\* C28's case: a bare number for rotate_rad, after a translate_m of 3
\* components and a term_d of exactly 1e-6
C28_Witness ==
    /\ ConstructingAny
    /\ TranslatePasses
    /\ args.term_d = TermDLimit
    /\ ~HasLen(args.rotate_rad)
    /\ ~Outcome.ok
    /\ Outcome.error = "TypeError"

=============================================================================
